---- MODULE Spec2Model ----
(***************************************************************************)
(* Model of ce-autostart.py: the VDF tokenizer/parser/serializer and the   *)
(* LaunchOptions mutation engine (modify_launch_options,                   *)
(* remove_launch_options, create_backup).                                  *)
(*                                                                         *)
(* A Python str is a sequence of one-character strings.  A Python value    *)
(* stored in a parsed dictionary is either a str or a dict; it is the      *)
(* record [isdict, str, dict].  A dict is the sequence of its items in     *)
(* insertion order, each item a record [key, value].                       *)
(***************************************************************************)
EXTENDS Integers, Sequences, FiniteSets, TLC

\* ------------------------------------------------------------------------
\* Characters
\* ------------------------------------------------------------------------
QUOTE == "\""
TAB == "\t"
NL == "\n"
SPACE == " "
LBRACE == "{"
RBRACE == "}"
SLASH == "/"

\* str.isspace() on one character, for the characters of the model
isspace(c) == c \in {SPACE, TAB, NL}

\* ------------------------------------------------------------------------
\* Python values and dicts
\* ------------------------------------------------------------------------
StrV(s) == [isdict |-> FALSE, str |-> s, dict |-> <<>>]
DictV(d) == [isdict |-> TRUE, str |-> <<>>, dict |-> d]

\* key in d
Has(d, k) == \E i \in 1..Len(d) : d[i].key = k

\* position of key k in d (k in d)
IndexOf(d, k) == CHOOSE i \in 1..Len(d) : d[i].key = k

\* d[k]
Get(d, k) == d[IndexOf(d, k)].value

\* d[k] = v : an existing key keeps its position, a new key goes last
Put(d, k, v) ==
    IF Has(d, k)
    THEN [d EXCEPT ![IndexOf(d, k)] = [key |-> k, value |-> v]]
    ELSE Append(d, [key |-> k, value |-> v])

\* del d[k]
Del(d, k) == SelectSeq(d, LAMBDA item : item.key # k)

\* ------------------------------------------------------------------------
\* parse_vdf: tokenize
\* ------------------------------------------------------------------------
\* first index j >= i with text[j] = c, Len(text)+1 when there is none
RECURSIVE FindChar(_, _, _)
FindChar(text, i, c) ==
    IF i <= Len(text) /\ text[i] # c THEN FindChar(text, i + 1, c) ELSE i

\* first index j >= i with text[j] not a space, Len(text)+1 when there is none:
\* the iterations of the loop that only skip whitespace
RECURSIVE SkipSpace(_, _)
SkipSpace(text, i) ==
    IF i <= Len(text) /\ isspace(text[i]) THEN SkipSpace(text, i + 1) ELSE i

\* the while loop of tokenize, from index i (1-based) with the tokens so far
RECURSIVE TokLoop(_, _, _)
TokLoop(text, i0, tokens) ==
    LET i == SkipSpace(text, i0) IN
    IF i > Len(text) THEN tokens
    ELSE IF text[i] = SLASH /\ i + 1 <= Len(text) /\ text[i + 1] = SLASH
         THEN TokLoop(text, FindChar(text, i, NL), tokens)
    ELSE IF text[i] = QUOTE
         THEN LET start == i + 1
                  stop == FindChar(text, start, QUOTE)
              IN TokLoop(text, stop + 1,
                         Append(tokens, [type |-> "STRING",
                                         value |-> SubSeq(text, start, stop - 1)]))
    ELSE IF text[i] \in {LBRACE, RBRACE}
         THEN TokLoop(text, i + 1, Append(tokens, [type |-> "BRACE", value |-> <<text[i]>>]))
    ELSE TokLoop(text, i + 1, tokens)

tokenize(text) == TokLoop(text, 1, <<>>)

\* ------------------------------------------------------------------------
\* parse_vdf: parse_tokens
\* ------------------------------------------------------------------------
IsOpen(tok) == tok.type = "BRACE" /\ tok.value = <<LBRACE>>
IsClose(tok) == tok.type = "BRACE" /\ tok.value = <<RBRACE>>

\* the "Skip tabs" loop: first index >= index that is not an empty STRING
RECURSIVE SkipEmpty(_, _)
SkipEmpty(tokens, index) ==
    IF index <= Len(tokens) /\ tokens[index].type = "STRING" /\ tokens[index].value = <<>>
    THEN SkipEmpty(tokens, index + 1)
    ELSE index

\* parse_tokens(tokens, index) with the dictionary built so far; indices are
\* 1-based.  Returns [result, index].
RECURSIVE ParseLoop(_, _, _)
ParseLoop(tokens, index, result) ==
    IF index > Len(tokens) THEN [result |-> result, index |-> index]
    ELSE LET tok == tokens[index] IN
      IF tok.type = "STRING"
      THEN LET key == tok.value
               nxt == SkipEmpty(tokens, index + 1)
           IN IF nxt <= Len(tokens)
              THEN IF IsOpen(tokens[nxt])
                   THEN LET nested == ParseLoop(tokens, nxt + 1, <<>>)
                        IN ParseLoop(tokens, nested.index,
                                     Put(result, key, DictV(nested.result)))
                   ELSE IF tokens[nxt].type = "STRING"
                   THEN ParseLoop(tokens, nxt + 1,
                                  Put(result, key, StrV(tokens[nxt].value)))
                   ELSE [result |-> result, index |-> nxt]
              ELSE [result |-> result, index |-> nxt]
      ELSE IF IsClose(tok)
      THEN [result |-> result, index |-> index + 1]
      ELSE ParseLoop(tokens, index + 1, result)

parse_tokens(tokens, index) == ParseLoop(tokens, index, <<>>)

parse_vdf(content) == parse_tokens(tokenize(content), 1).result

\* ------------------------------------------------------------------------
\* write_vdf
\* ------------------------------------------------------------------------
\* "\t" * indent
RECURSIVE Tabs(_)
Tabs(n) == IF n = 0 THEN <<>> ELSE <<TAB>> \o Tabs(n - 1)

\* str.rstrip()
RECURSIVE rstrip(_)
rstrip(s) ==
    IF s # <<>> /\ isspace(s[Len(s)]) THEN rstrip(SubSeq(s, 1, Len(s) - 1)) ELSE s

\* '\n'.join(lines)
RECURSIVE Join(_)
Join(lines) ==
    IF lines = <<>> THEN <<>>
    ELSE IF Len(lines) = 1 THEN lines[1]
    ELSE lines[1] \o <<NL>> \o Join(Tail(lines))

Quoted(s) == <<QUOTE>> \o s \o <<QUOTE>>

RECURSIVE write_vdf(_, _)
RECURSIVE WriteLines(_, _)
\* the list `lines` appended for the items of data
WriteLines(data, indent) ==
    IF data = <<>> THEN <<>>
    ELSE LET item == Head(data)
             indent_str == Tabs(indent)
         IN (IF item.value.isdict
             THEN << indent_str \o Quoted(item.key),
                     indent_str \o <<LBRACE>>,
                     rstrip(write_vdf(item.value.dict, indent + 1)),
                     indent_str \o <<RBRACE>> >>
             ELSE << indent_str \o Quoted(item.key) \o <<TAB, TAB>>
                                \o Quoted(item.value.str) >>)
            \o WriteLines(Tail(data), indent)

write_vdf(data, indent) == Join(WriteLines(data, indent)) \o <<NL>>

\* ------------------------------------------------------------------------
\* parse_vdf: the depth of the recursion of parse_tokens
\* ------------------------------------------------------------------------
\* The number of parse_tokens calls the interpreter lets stand on the stack
\* before it raises RecursionError.  CPython's limit is 1000 frames
\* (sys.getrecursionlimit()); the model scales it down to the nesting its
\* inputs reach, above the nesting of every file of the other specifications.
RecursionLimit == 8

\* nesting of the deepest input
MaxNest == RecursionLimit + 1

\* length of the longest arbitrary input
MaxText == 4

\* number of pieces of the longest input put together from pieces
MaxPieces == 5

Max(a, b) == IF a >= b THEN a ELSE b

\* parse_tokens(tokens, index) called at recursion level `level`:
\* [index, depth], the index it returns and the deepest level of the calls
\* it makes (parse_tokens calls itself for every `{` after a key, line 331)
RECURSIVE ParseDepth(_, _, _)
ParseDepth(tokens, index, level) ==
    IF index > Len(tokens) THEN [index |-> index, depth |-> level]
    ELSE LET tok == tokens[index] IN
      IF tok.type = "STRING"
      THEN LET nxt == SkipEmpty(tokens, index + 1)
           IN IF nxt <= Len(tokens)
              THEN IF IsOpen(tokens[nxt])
                   THEN LET nested == ParseDepth(tokens, nxt + 1, level + 1)
                            rest == ParseDepth(tokens, nested.index, level)
                        IN [index |-> rest.index, depth |-> Max(nested.depth, rest.depth)]
                   ELSE IF tokens[nxt].type = "STRING"
                   THEN ParseDepth(tokens, nxt + 1, level)
                   ELSE [index |-> nxt, depth |-> level]
              ELSE [index |-> nxt, depth |-> level]
      ELSE IF IsClose(tok)
      THEN [index |-> index + 1, depth |-> level]
      ELSE ParseDepth(tokens, index + 1, level)

\* parse_vdf(content) raises RecursionError
parse_raises(content) == ParseDepth(tokenize(content), 1, 1).depth > RecursionLimit

\* ------------------------------------------------------------------------
\* The part every token plays in a token stream: a STRING where a key is
\* expected is a key; the token after it makes it the key of a section
\* ("open"), of a value ("value"), or a bare key; a closing brace closes the
\* innermost open section ("close") or, with no section open, is in excess;
\* an opening brace without a key is stray
\* ------------------------------------------------------------------------
RECURSIVE Roles(_, _, _)
Roles(tokens, i, depth) ==
    IF i > Len(tokens) THEN <<>>
    ELSE IF tokens[i].type = "STRING"
    THEN IF i + 1 <= Len(tokens) /\ IsOpen(tokens[i + 1])
         THEN <<"key", "open">> \o Roles(tokens, i + 2, depth + 1)
         ELSE IF i + 1 <= Len(tokens) /\ tokens[i + 1].type = "STRING"
         THEN <<"key", "value">> \o Roles(tokens, i + 2, depth)
         ELSE <<"bare">> \o Roles(tokens, i + 1, depth)
    ELSE IF IsClose(tokens[i])
    THEN IF depth > 0 THEN <<"close">> \o Roles(tokens, i + 1, depth - 1)
         ELSE <<"excess">> \o Roles(tokens, i + 1, depth)
    ELSE <<"stray">> \o Roles(tokens, i + 1, depth)

\* tokens without the token at position i
Without(tokens, i) == SubSeq(tokens, 1, i - 1) \o SubSeq(tokens, i + 1, Len(tokens))

\* ------------------------------------------------------------------------
\* Keys of localconfig.vdf
\* ------------------------------------------------------------------------
Software == <<"S", "o", "f", "t", "w", "a", "r", "e">>
Valve == <<"V", "a", "l", "v", "e">>
Steam == <<"S", "t", "e", "a", "m">>
apps == <<"a", "p", "p", "s">>
LaunchOptions == <<"L", "a", "u", "n", "c", "h", "O", "p", "t", "i", "o", "n", "s">>

\* Software -> Valve -> Steam -> apps
AppsPath == <<Software, Valve, Steam, apps>>

\* ------------------------------------------------------------------------
\* modify_launch_options: the setdefault chain
\* ------------------------------------------------------------------------
\* d.setdefault(path[1], {}).setdefault(path[2], {})... : [ok, dict, value].
\* ok is FALSE when setdefault is called on a str (AttributeError); dict is
\* d after the insertions made so far; value is what the last setdefault
\* returned.
\* a str on the way is replaced by a new dict
RECURSIVE setdefault_chain_overwrite(_, _)
setdefault_chain_overwrite(d, path) ==
    LET seg == Head(path)
        v == IF Has(d, seg) /\ Get(d, seg).isdict THEN Get(d, seg) ELSE DictV(<<>>)
        d1 == Put(d, seg, v)
    IN IF Len(path) = 1 THEN [ok |-> TRUE, dict |-> d1, value |-> v]
       ELSE LET sub == setdefault_chain_overwrite(v.dict, Tail(path))
            IN [ok |-> sub.ok, dict |-> Put(d1, seg, DictV(sub.dict)), value |-> sub.value]

RECURSIVE setdefault_chain(_, _)
setdefault_chain(d, path) ==
    LET seg == Head(path)
        v == IF Has(d, seg) THEN Get(d, seg) ELSE DictV(<<>>)
        d1 == IF Has(d, seg) THEN d ELSE Put(d, seg, v)
    IN IF Len(path) = 1 THEN [ok |-> TRUE, dict |-> d1, value |-> v]
       ELSE IF ~v.isdict THEN [ok |-> FALSE, dict |-> d1, value |-> v]
       ELSE LET sub == setdefault_chain(v.dict, Tail(path))
            IN [ok |-> sub.ok, dict |-> Put(d1, seg, DictV(sub.dict)), value |-> sub.value]

\* the dict d after  <section at path>[key] = v ; every segment of path is a dict
RECURSIVE SetItemAt(_, _, _, _)
SetItemAt(d, path, key, v) ==
    IF path = <<>> THEN Put(d, key, v)
    ELSE Put(d, Head(path), DictV(SetItemAt(Get(d, Head(path)).dict, Tail(path), key, v)))

\* the dict d after  del <section at path>[key]
RECURSIVE DelItemAt(_, _, _)
DelItemAt(d, path, key) ==
    IF path = <<>> THEN Del(d, key)
    ELSE Put(d, Head(path), DictV(DelItemAt(Get(d, Head(path)).dict, Tail(path), key)))

\* ------------------------------------------------------------------------
\* remove_launch_options: the get chain
\* ------------------------------------------------------------------------
\* d.get(path[1], {}).get(path[2], {})... : [ok, value]; ok is FALSE when get
\* is called on a str (AttributeError)
RECURSIVE get_chain(_, _)
get_chain(v, path) ==
    IF path = <<>> THEN [ok |-> TRUE, value |-> v]
    ELSE IF ~v.isdict THEN [ok |-> FALSE, value |-> v]
    ELSE get_chain(IF Has(v.dict, Head(path)) THEN Get(v.dict, Head(path)) ELSE DictV(<<>>),
                   Tail(path))

\* s in t, for two str
IsSubstring(s, t) ==
    \E i \in 1..(Len(t) + 1) : i + Len(s) - 1 <= Len(t) /\ SubSeq(t, i, i + Len(s) - 1) = s

\* a missing LaunchOptions key is taken as an empty value
remove_lookup_missing_default(data, app_id) ==
    LET nav == get_chain(DictV(data), AppsPath)
    IN IF ~nav.ok THEN [outcome |-> "NavigateError", current_value |-> StrV(<<>>)]
       ELSE IF ~nav.value.isdict
       THEN IF IsSubstring(app_id, nav.value.str)
            THEN [outcome |-> "NavigateError", current_value |-> StrV(<<>>)]
            ELSE [outcome |-> "NotFound", current_value |-> StrV(<<>>)]
       ELSE IF ~Has(nav.value.dict, app_id)
       THEN [outcome |-> "NotFound", current_value |-> StrV(<<>>)]
       ELSE IF ~Get(nav.value.dict, app_id).isdict
       THEN [outcome |-> "InvalidStructure", current_value |-> StrV(<<>>)]
       ELSE IF ~Has(Get(nav.value.dict, app_id).dict, LaunchOptions)
       THEN [outcome |-> "found", current_value |-> StrV(<<>>)]
       ELSE [outcome |-> "found",
             current_value |-> Get(Get(nav.value.dict, app_id).dict, LaunchOptions)]

\* lines 695-725 of remove_launch_options: which return statement is taken,
\* or "found" with the value stored under LaunchOptions
remove_lookup(data, app_id) ==
    LET nav == get_chain(DictV(data), AppsPath)
    IN IF ~nav.ok THEN [outcome |-> "NavigateError", current_value |-> StrV(<<>>)]
       ELSE IF ~nav.value.isdict
       THEN IF IsSubstring(app_id, nav.value.str)
            THEN [outcome |-> "NavigateError", current_value |-> StrV(<<>>)]
            ELSE [outcome |-> "NotFound", current_value |-> StrV(<<>>)]
       ELSE IF ~Has(nav.value.dict, app_id)
       THEN [outcome |-> "NotFound", current_value |-> StrV(<<>>)]
       ELSE IF ~Get(nav.value.dict, app_id).isdict
       THEN [outcome |-> "InvalidStructure", current_value |-> StrV(<<>>)]
       ELSE IF ~Has(Get(nav.value.dict, app_id).dict, LaunchOptions)
       THEN [outcome |-> "NoLaunchOptions", current_value |-> StrV(<<>>)]
       ELSE [outcome |-> "found",
             current_value |-> Get(Get(nav.value.dict, app_id).dict, LaunchOptions)]

\* ------------------------------------------------------------------------
\* The operator's answer: input(...).strip().lower()
\* ------------------------------------------------------------------------
lower(c) == IF c = "Y" THEN "y" ELSE IF c = "N" THEN "n" ELSE c

RECURSIVE lstrip(_)
lstrip(s) == IF s # <<>> /\ isspace(s[1]) THEN lstrip(Tail(s)) ELSE s

strip_lower(s) == LET t == lstrip(rstrip(s)) IN [i \in 1..Len(t) |-> lower(t[i])]

\* every answer but "n" and "skip" lets the change go on
approved_unless_no(response) ==
    ~(response = <<"s", "k", "i", "p">> \/ response = <<"n">>)

\* the answer lets the change go on (neither of the two `return False`)
approved(response) ==
    ~(response = <<"s", "k", "i", "p">> \/ response = <<"n">>) /\ ~(response # <<"y">>)

\* the comparison is left out
same_value_never(current_value, new_launch_options) == FALSE

\* current_value == new_launch_options
same_value(current_value, new_launch_options) == current_value = StrV(new_launch_options)

\* ------------------------------------------------------------------------
\* create_backup
\* ------------------------------------------------------------------------
HeaderLine(kind) == [kind |-> kind, game_id |-> <<>>, original_value |-> StrV(<<>>)]

\* the four header writes
BackupHeader == <<HeaderLine("title"), HeaderLine("generated"),
                  HeaderLine("columns"), HeaderLine("rule")>>

\* f"| {game_id} | {original_value} |\n"
BackupRow(game_id, original_value) ==
    [kind |-> "row", game_id |-> game_id, original_value |-> original_value]

\* a row is written only to a backup file that exists
create_backup_existing_only(files, timestamp, game_id, original_value) ==
    IF files[timestamp] # <<>>
    THEN [files EXCEPT ![timestamp] = Append(@, BackupRow(game_id, original_value))]
    ELSE files

\* files maps a timestamp to the lines of launch_options_backup_<timestamp>.md,
\* <<>> when the file does not exist
create_backup(files, timestamp, game_id, original_value) ==
    IF files[timestamp] # <<>>
    THEN [files EXCEPT ![timestamp] = Append(@, BackupRow(game_id, original_value))]
    ELSE [files EXCEPT ![timestamp] = BackupHeader \o <<BackupRow(game_id, original_value)>>]

\* ------------------------------------------------------------------------
\* Bounds and input sets
\* ------------------------------------------------------------------------
MaxNodes == 4
MaxDepth == 4
MaxCalls == 2
MaxClock == 1

RtKeys == {<<"a">>, <<"b">>}
RtVals == {<<>>, <<"x">>, <<"y", QUOTE>>}

AppIds == {<<"1">>, <<"2">>}
NewValues == {<<>>, <<"b">>}
\* what the operator types at a prompt
Answers == {<<"y">>, <<" ", "Y">>, <<"n">>, <<"s", "k", "i", "p">>, <<"y", "e", "s">>, <<>>}

\* the tree Software { Valve { Steam { apps <v> } } } followed by the items of rest
UnderApps(v, rest) ==
    <<[key |-> Software, value |-> DictV(<<
        [key |-> Valve, value |-> DictV(<<
            [key |-> Steam, value |-> DictV(<<
                [key |-> apps, value |-> v]>>)]>>)]>>)]>> \o rest

Item(k, v) == [key |-> k, value |-> v]

\* the trees the configuration file is written from at the start
InitTrees == {
    <<>>,
    UnderApps(DictV(<<Item(<<"1">>, DictV(<<Item(LaunchOptions, StrV(<<"a">>))>>)),
                      Item(<<"2">>, DictV(<<>>))>>),
              <<Item(<<"b">>, StrV(<<"a">>))>>),
    UnderApps(DictV(<<Item(<<"1">>, DictV(<<Item(LaunchOptions, StrV(<<"a">>)),
                                            Item(<<"k">>, StrV(<<>>))>>)),
                      Item(<<"2">>, DictV(<<Item(LaunchOptions, StrV(<<"b">>))>>))>>),
              <<>>),
    <<Item(Software, StrV(<<"a">>))>>,
    UnderApps(StrV(<<"1">>), <<>>),
    UnderApps(DictV(<<Item(<<"1">>, StrV(<<"a">>))>>), <<>>),
    UnderApps(DictV(<<Item(<<"1">>, DictV(<<Item(LaunchOptions, DictV(<<>>))>>))>>), <<>>),
    UnderApps(DictV(<<Item(<<"2">>, DictV(<<Item(LaunchOptions, StrV(<<"b">>))>>)),
                      Item(<<"1">>, DictV(<<Item(LaunchOptions, StrV(<<"a">>))>>)),
                      Item(<<"3">>, DictV(<<Item(LaunchOptions, StrV(<<"a">>))>>))>>),
              <<>>)
}

VARIABLES
    T,                  \* the tree the text under test is serialized from
    rt_pc,              \* round trip: position
    text,               \* round trip: write_vdf(T)
    parsed,             \* round trip: parse_vdf(text)
    text2,              \* round trip: write_vdf(parsed)
    disk,               \* content of localconfig.vdf
    backups,            \* timestamp -> lines of launch_options_backup_<timestamp>.md
    clock,              \* datetime.now(), in seconds
    pc,                 \* position inside modify_launch_options / remove_launch_options
    op,                 \* the arguments of the running (or last) call
    localconfig_data,   \* local: the parsed dictionary
    current_value,      \* local: app_section["LaunchOptions"]
    response,           \* local: input(...).strip().lower()
    vdf_output,         \* local: write_vdf(localconfig_data)
    result,             \* the value returned by the last call
    outcome,            \* which return statement the last call took
    events,             \* history: the effects of the running (or last) call, in order
    calls,              \* history: number of calls started
    diskBefore,         \* history: disk when the call started
    treeBefore,         \* history: parse_vdf(diskBefore)
    backupsBefore,      \* history: backups when the call started
    prev,               \* history: op and outcome of the call before
    cmd,                \* the command of the command line: sys.argv[1]
    cpc,                \* position inside the cmd_... function
    game_id,            \* sys.argv[2] of a command for one game
    launch_options_template,   \* steam_config["launch_options_template"]
    targets,            \* installed_games / games_with_options
    index,              \* position of the for loop in sorted(targets)
    modified_count,     \* modified_count / removed_count
    skipped_count,      \* skipped_count
    exit_code,          \* exit status of the process, -1 while it runs
    log,                \* history: the calls of the command that have returned
    treeStart           \* history: parse_vdf(disk) when the command started

rtvars == <<rt_pc, text, parsed, text2>>
mainvars == <<disk, backups, clock, pc, op, localconfig_data, current_value, response,
              vdf_output,
              result, outcome, events, calls, diskBefore, treeBefore, backupsBefore,
              prev, cmd, cpc, game_id, launch_options_template, targets, index,
              modified_count, skipped_count, exit_code, log, treeStart>>
cmdvars == <<cmd, cpc, game_id, launch_options_template, targets, index, modified_count,
             skipped_count, exit_code, log, treeStart>>
vars == <<T, rt_pc, text, parsed, text2, disk, backups, clock, pc, op, localconfig_data,
          current_value, response, vdf_output, result, outcome, events, calls, diskBefore,
          treeBefore, backupsBefore, prev, cmd, cpc, game_id, launch_options_template,
          targets, index, modified_count, skipped_count, exit_code, log, treeStart>>

NoOp == [kind |-> "none", app_id |-> <<>>, new_launch_options |-> <<>>, ask_if_exists |-> FALSE]
NoBackups == [t \in 0..MaxClock |-> <<>>]

\* no command of the command line is running: the two functions are called
\* directly
NoCommand ==
    /\ cmd = "none"
    /\ cpc = "off"
    /\ game_id = <<>>
    /\ launch_options_template = <<>>
    /\ targets = <<>>
    /\ index = 1
    /\ modified_count = 0
    /\ skipped_count = 0
    /\ exit_code = -1
    /\ log = <<>>
    /\ treeStart = <<>>

\* ------------------------------------------------------------------------
\* Round trip of the serializer and the parser: trees are built item by item,
\* serialized, parsed and serialized again
\* ------------------------------------------------------------------------
\* number of items, at every level, of a dict
RECURSIVE Nodes(_)
Nodes(d) ==
    IF d = <<>> THEN 0
    ELSE 1 + (IF Head(d).value.isdict THEN Nodes(Head(d).value.dict) ELSE 0)
           + Nodes(Tail(d))

\* the dicts obtained from d by adding one item, at nesting level < depth
RECURSIVE Grown(_, _)
Grown(d, depth) ==
    IF depth = 0 THEN {}
    ELSE {Append(d, [key |-> k, value |-> v]) :
              k \in {kk \in RtKeys : ~Has(d, kk)},
              v \in {StrV(s) : s \in RtVals} \cup {DictV(<<>>)}}
         \cup UNION {{[d EXCEPT ![i].value = DictV(g)] : g \in Grown(d[i].value.dict, depth - 1)} :
                        i \in {j \in 1..Len(d) : d[j].value.isdict}}

\* no key and no str value of d holds a quote character
RECURSIVE QuoteFree(_)
QuoteFree(d) ==
    \A i \in 1..Len(d) :
        /\ \A j \in 1..Len(d[i].key) : d[i].key[j] # QUOTE
        /\ IF d[i].value.isdict THEN QuoteFree(d[i].value.dict)
           ELSE \A j \in 1..Len(d[i].value.str) : d[i].value.str[j] # QUOTE

RtInit ==
    /\ T = <<>>
    /\ rt_pc = "build"
    /\ text = <<>>
    /\ parsed = <<>>
    /\ text2 = <<>>
    /\ disk = <<>>
    /\ backups = NoBackups
    /\ clock = 0
    /\ pc = "off"
    /\ op = NoOp
    /\ localconfig_data = <<>>
    /\ current_value = StrV(<<>>)
    /\ response = <<>>
    /\ vdf_output = <<>>
    /\ result = FALSE
    /\ outcome = "none"
    /\ events = <<>>
    /\ calls = 0
    /\ diskBefore = <<>>
    /\ treeBefore = <<>>
    /\ backupsBefore = NoBackups
    /\ prev = [op |-> NoOp, outcome |-> "none"]
    /\ NoCommand

RtGrow ==
    /\ rt_pc = "build"
    /\ Nodes(T) < MaxNodes
    /\ \E g \in Grown(T, MaxDepth) : T' = g
    /\ UNCHANGED <<rt_pc, text, parsed, text2>>
    /\ UNCHANGED mainvars

RtSerialize ==
    /\ rt_pc = "build"
    /\ text' = write_vdf(T, 0)
    /\ rt_pc' = "serialized"
    /\ UNCHANGED <<T, parsed, text2>>
    /\ UNCHANGED mainvars

RtParse ==
    /\ rt_pc = "serialized"
    /\ parsed' = parse_vdf(text)
    /\ rt_pc' = "parsed"
    /\ UNCHANGED <<T, text, text2>>
    /\ UNCHANGED mainvars

RtReserialize ==
    /\ rt_pc = "parsed"
    /\ text2' = write_vdf(parsed, 0)
    /\ rt_pc' = "reserialized"
    /\ UNCHANGED <<T, text, parsed>>
    /\ UNCHANGED mainvars

RtNext == RtGrow \/ RtSerialize \/ RtParse \/ RtReserialize

SpecRT == RtInit /\ [][RtNext]_vars

\* ------------------------------------------------------------------------
\* modify_launch_options and remove_launch_options, one action per step
\* between two effects on the outside (file read, prompt, backup, open for
\* writing, write).  Every step that does I/O draws its success from BOOLEAN.
\* ------------------------------------------------------------------------
InitFiles ==
    /\ T \in InitTrees
    /\ rt_pc = "off"
    /\ text = <<>>
    /\ parsed = <<>>
    /\ text2 = <<>>
    /\ disk = write_vdf(T, 0)
    /\ backups = NoBackups
    /\ clock = 0
    /\ pc = "idle"
    /\ op = NoOp
    /\ localconfig_data = <<>>
    /\ current_value = StrV(<<>>)
    /\ response = <<>>
    /\ vdf_output = <<>>
    /\ result = FALSE
    /\ outcome = "none"
    /\ events = <<>>
    /\ calls = 0
    /\ diskBefore = disk
    /\ treeBefore = parse_vdf(disk)
    /\ backupsBefore = backups
    /\ prev = [op |-> NoOp, outcome |-> "none"]

Init == InitFiles /\ NoCommand

\* a call starts
Begin(o) ==
    /\ pc = "idle"
    /\ calls < MaxCalls
    /\ op' = o
    /\ pc' = "read"
    /\ calls' = calls + 1
    /\ outcome' = "running"
    /\ UNCHANGED cmdvars
    /\ UNCHANGED <<T, rt_pc, text, parsed, text2, disk, backups, clock, localconfig_data,
                   current_value, response, vdf_output, result, events, diskBefore, treeBefore,
                   backupsBefore, prev>>

ModifyBegin ==
    \E app_id \in AppIds, new_launch_options \in NewValues, ask_if_exists \in BOOLEAN :
        Begin([kind |-> "modify", app_id |-> app_id,
               new_launch_options |-> new_launch_options, ask_if_exists |-> ask_if_exists])

RemoveBegin ==
    \E app_id \in AppIds, ask_if_exists \in BOOLEAN :
        Begin([kind |-> "remove", app_id |-> app_id,
               new_launch_options |-> <<>>, ask_if_exists |-> ask_if_exists])

\* the exception leaves the function: no except clause
Raised_uncaught(event) ==
    /\ pc' = "exited"
    /\ result' = FALSE
    /\ outcome' = "Exception"
    /\ events' = Append(events, event)

\* the except clause of the function: the call returns False
Raised(event) ==
    /\ pc' = "done"
    /\ result' = FALSE
    /\ outcome' = "Exception"
    /\ events' = Append(events, event)

\* lines 555-599 of modify_launch_options, from the parse to the next effect
\* on the outside: [pc, outcome, localconfig_data, current_value, vdf_output]
modify_check(content, app_id, new_launch_options, ask_if_exists) ==
    LET data == parse_vdf(content)
        path == AppsPath \o <<app_id>>
        nav == setdefault_chain(data, path)
        none == StrV(<<>>)
    IN IF ~nav.ok
       THEN [pc |-> "done", outcome |-> "NavigateError", localconfig_data |-> nav.dict,
             current_value |-> none, vdf_output |-> <<>>]
       ELSE IF ~nav.value.isdict
       \* `"LaunchOptions" in app_section` on a str, then a subscript of or an
       \* item assignment to that str: TypeError
       THEN [pc |-> "done", outcome |-> "Exception", localconfig_data |-> nav.dict,
             current_value |-> none, vdf_output |-> <<>>]
       ELSE IF Has(nav.value.dict, LaunchOptions)
       THEN LET cv == Get(nav.value.dict, LaunchOptions)
            IN IF same_value(cv, new_launch_options)
               THEN [pc |-> "done", outcome |-> "Unchanged", localconfig_data |-> nav.dict,
                     current_value |-> cv, vdf_output |-> <<>>]
               ELSE [pc |-> IF ask_if_exists THEN "prompt" ELSE "backup",
                     outcome |-> "running", localconfig_data |-> nav.dict,
                     current_value |-> cv, vdf_output |-> <<>>]
       ELSE LET set == SetItemAt(nav.dict, path, LaunchOptions, StrV(new_launch_options))
            IN [pc |-> "open", outcome |-> "running", localconfig_data |-> set,
                current_value |-> none, vdf_output |-> write_vdf(set, 0)]

\* lines 693-746 of remove_launch_options, from the parse to the next effect
remove_check(content, app_id, ask_if_exists) ==
    LET data == parse_vdf(content)
        found == remove_lookup(data, app_id)
    IN IF found.outcome # "found"
       THEN [pc |-> "done", outcome |-> found.outcome, localconfig_data |-> data,
             current_value |-> found.current_value, vdf_output |-> <<>>]
       ELSE [pc |-> IF ask_if_exists THEN "prompt" ELSE "backup",
             outcome |-> "running", localconfig_data |-> data,
             current_value |-> found.current_value, vdf_output |-> <<>>]

\* open(localconfig_path, "r"), f.read(), and the checks up to the next effect
Read(kind) ==
    /\ pc = "read"
    /\ op.kind = kind
    /\ \E ok \in BOOLEAN :
        IF ok
        THEN LET r == IF kind = "modify"
                      THEN modify_check(disk, op.app_id, op.new_launch_options,
                                        op.ask_if_exists)
                      ELSE remove_check(disk, op.app_id, op.ask_if_exists)
             IN /\ pc' = r.pc
                /\ outcome' = r.outcome
                /\ result' = FALSE
                /\ localconfig_data' = r.localconfig_data
                /\ current_value' = r.current_value
                /\ vdf_output' = r.vdf_output
                /\ events' = Append(events, "read")
        ELSE /\ Raised("read_failed")
             /\ UNCHANGED <<localconfig_data, current_value, vdf_output>>
    /\ UNCHANGED cmdvars
    /\ UNCHANGED <<T, rt_pc, text, parsed, text2, disk, backups, clock, op, response, calls,
                   diskBefore, treeBefore, backupsBefore, prev>>

ModifyRead == Read("modify")

RemoveRead == Read("remove")

\* input(...): a line typed by the operator, or EOFError
Prompt(kind) ==
    /\ pc = "prompt"
    /\ op.kind = kind
    /\ \/ \E answer \in Answers :
            /\ response' = strip_lower(answer)
            /\ IF approved(response')
               THEN /\ pc' = "backup"
                    /\ events' = Append(events, "prompt")
                    /\ UNCHANGED <<result, outcome>>
               ELSE /\ pc' = "done"
                    /\ result' = FALSE
                    /\ outcome' = "Skipped"
                    /\ events' = Append(events, "prompt")
       \/ /\ Raised("prompt_eof")
          /\ UNCHANGED response
    /\ UNCHANGED cmdvars
    /\ UNCHANGED <<T, rt_pc, text, parsed, text2, disk, backups, clock, op,
                   localconfig_data, current_value, vdf_output, calls, diskBefore, treeBefore,
                   backupsBefore, prev>>

ModifyPrompt == Prompt("modify")

RemovePrompt == Prompt("remove")

\* KeyboardInterrupt while input() waits: not an Exception, the program ends
Interrupt ==
    /\ pc = "prompt"
    /\ pc' = "exited"
    /\ outcome' = "KeyboardInterrupt"
    /\ events' = Append(events, "interrupt")
    /\ UNCHANGED cmdvars
    /\ UNCHANGED <<T, rt_pc, text, parsed, text2, disk, backups, clock, op,
                   localconfig_data, current_value, response, vdf_output, result, calls,
                   diskBefore, treeBefore, backupsBefore, prev>>

\* create_backup(app_id, current_value), then the change of the dictionary and
\* write_vdf
Backup(kind) ==
    /\ pc = "backup"
    /\ op.kind = kind
    /\ \E ok \in BOOLEAN :
        IF ok
        THEN LET path == AppsPath \o <<op.app_id>>
                 data == IF kind = "modify"
                         THEN SetItemAt(localconfig_data, path, LaunchOptions,
                                        StrV(op.new_launch_options))
                         ELSE DelItemAt(localconfig_data, path, LaunchOptions)
             \* datetime.now(): the clock has gone on since it was last read
             IN /\ \E timestamp \in clock..MaxClock :
                      /\ clock' = timestamp
                      /\ backups' = create_backup(backups, timestamp, op.app_id,
                                                  current_value)
                /\ localconfig_data' = data
                /\ vdf_output' = write_vdf(data, 0)
                /\ pc' = "open"
                /\ events' = Append(events, "backup")
                /\ UNCHANGED <<result, outcome>>
        ELSE /\ Raised("backup_failed")
             /\ UNCHANGED <<backups, clock, localconfig_data, vdf_output>>
    /\ UNCHANGED cmdvars
    /\ UNCHANGED <<T, rt_pc, text, parsed, text2, disk, op, current_value, response, calls,
                   diskBefore, treeBefore, backupsBefore, prev>>

ModifyBackup == Backup("modify")

RemoveBackup == Backup("remove")

\* open(localconfig_path, "w"): the file is truncated
OpenForWrite(kind) ==
    /\ pc = "open"
    /\ op.kind = kind
    /\ \E ok \in BOOLEAN :
        IF ok
        THEN /\ disk' = <<>>
             /\ pc' = "write"
             /\ events' = Append(events, "open")
             /\ UNCHANGED <<result, outcome>>
        ELSE /\ Raised("open_failed")
             /\ UNCHANGED disk
    /\ UNCHANGED cmdvars
    /\ UNCHANGED <<T, rt_pc, text, parsed, text2, backups, clock, op, localconfig_data,
                   current_value, response, vdf_output, calls, diskBefore, treeBefore,
                   backupsBefore, prev>>

ModifyOpen == OpenForWrite("modify")

RemoveOpen == OpenForWrite("remove")

\* the text stays in the buffer of the file object and is not written out
WriteFile_buffered(kind) ==
    /\ pc = "write"
    /\ op.kind = kind
    /\ \E ok \in BOOLEAN :
        IF ok
        THEN /\ disk' = disk
             /\ pc' = "done"
             /\ result' = TRUE
             /\ outcome' = IF kind = "modify" THEN "Modified" ELSE "Removed"
             /\ events' = Append(events, "write")
        ELSE /\ \E n \in {0, Len(vdf_output) \div 2} : disk' = SubSeq(vdf_output, 1, n)
             /\ Raised("write_failed")
    /\ UNCHANGED cmdvars
    /\ UNCHANGED <<T, rt_pc, text, parsed, text2, backups, clock, op, localconfig_data,
                   current_value, response, vdf_output, calls, diskBefore, treeBefore,
                   backupsBefore, prev>>

\* f.write(vdf_output) and the close of the file; a failed write leaves what
\* reached the disk, a proper prefix of vdf_output
WriteFile(kind) ==
    /\ pc = "write"
    /\ op.kind = kind
    /\ \E ok \in BOOLEAN :
        IF ok
        THEN /\ disk' = vdf_output
             /\ pc' = "done"
             /\ result' = TRUE
             /\ outcome' = IF kind = "modify" THEN "Modified" ELSE "Removed"
             /\ events' = Append(events, "write")
        ELSE /\ \E n \in {0, Len(vdf_output) \div 2} : disk' = SubSeq(vdf_output, 1, n)
             /\ Raised("write_failed")
    /\ UNCHANGED cmdvars
    /\ UNCHANGED <<T, rt_pc, text, parsed, text2, backups, clock, op, localconfig_data,
                   current_value, response, vdf_output, calls, diskBefore, treeBefore,
                   backupsBefore, prev>>

ModifyWrite == WriteFile("modify")

RemoveWrite == WriteFile("remove")

\* the call has returned: its locals are gone, the history variables take
\* their snapshot for the next call
Return ==
    /\ pc = "done"
    /\ pc' = "idle"
    /\ op' = NoOp
    /\ localconfig_data' = <<>>
    /\ current_value' = StrV(<<>>)
    /\ response' = <<>>
    /\ vdf_output' = <<>>
    /\ result' = FALSE
    /\ outcome' = "none"
    /\ events' = <<>>
    /\ diskBefore' = disk
    /\ treeBefore' = parse_vdf(disk)
    /\ backupsBefore' = backups
    /\ UNCHANGED cmdvars
    /\ UNCHANGED <<T, rt_pc, text, parsed, text2, disk, backups, clock, calls, prev>>

Next ==
    \/ ModifyBegin
    \/ ModifyRead
    \/ ModifyPrompt
    \/ ModifyBackup
    \/ ModifyOpen
    \/ ModifyWrite
    \/ RemoveBegin
    \/ RemoveRead
    \/ RemovePrompt
    \/ RemoveBackup
    \/ RemoveOpen
    \/ RemoveWrite
    \/ Interrupt
    \/ Return

Spec == Init /\ [][Next]_vars

\* ------------------------------------------------------------------------
\* The same modify_launch_options(app_id, v, ask_if_exists=False) call made
\* again and again on one file
\* ------------------------------------------------------------------------
\* the first call is any call that never asks; every later call repeats it
IdemBegin ==
    /\ IF calls = 0
       THEN \E app_id \in AppIds, new_launch_options \in NewValues :
               Begin([kind |-> "modify", app_id |-> app_id,
                      new_launch_options |-> new_launch_options,
                      ask_if_exists |-> FALSE])
       ELSE Begin(prev.op)

\* Return, and the call that has returned is remembered
IdemReturn ==
    /\ pc = "done"
    /\ pc' = "idle"
    /\ op' = NoOp
    /\ localconfig_data' = <<>>
    /\ current_value' = StrV(<<>>)
    /\ response' = <<>>
    /\ vdf_output' = <<>>
    /\ result' = FALSE
    /\ outcome' = "none"
    /\ events' = <<>>
    /\ diskBefore' = disk
    /\ treeBefore' = parse_vdf(disk)
    /\ backupsBefore' = backups
    /\ prev' = [op |-> op, outcome |-> outcome]
    /\ UNCHANGED cmdvars
    /\ UNCHANGED <<T, rt_pc, text, parsed, text2, disk, backups, clock, calls>>

IdemNext ==
    \/ IdemBegin
    \/ ModifyRead
    \/ ModifyBackup
    \/ ModifyOpen
    \/ ModifyWrite
    \/ IdemReturn

SpecIdem == Init /\ [][IdemNext]_vars

\* ------------------------------------------------------------------------
\* The commands of the command line: modify-launchoptions,
\* modify-all-launchoptions, remove-launchoptions, remove-all-launchoptions
\* ------------------------------------------------------------------------
\* the characters of the model in the order of their code points
CodePoints == <<TAB, NL, SPACE, QUOTE, SLASH,
                "0", "1", "2", "3", "4", "5", "6", "7", "8", "9",
                "A", "B", "C", "D", "E", "F", "G", "H", "I", "J", "K", "L", "M",
                "N", "O", "P", "Q", "R", "S", "T", "U", "V", "W", "X", "Y", "Z",
                "a", "b", "c", "d", "e", "f", "g", "h", "i", "j", "k", "l", "m",
                "n", "o", "p", "q", "r", "s", "t", "u", "v", "w", "x", "y", "z",
                LBRACE, RBRACE>>

ord(c) == CHOOSE i \in 1..Len(CodePoints) : CodePoints[i] = c

\* s < t, for two str
RECURSIVE StrLess(_, _)
StrLess(s, t) ==
    IF t = <<>> THEN FALSE
    ELSE IF s = <<>> THEN TRUE
    ELSE IF s[1] # t[1] THEN ord(s[1]) < ord(t[1])
    ELSE StrLess(Tail(s), Tail(t))

\* sorted(l), for a list of str
RECURSIVE sorted(_)
sorted(l) ==
    IF l = <<>> THEN <<>>
    ELSE LET rest == sorted(Tail(l))
             before == SelectSeq(rest, LAMBDA s : ~StrLess(Head(l), s))
             after == SelectSeq(rest, LAMBDA s : StrLess(Head(l), s))
         IN before \o <<Head(l)>> \o after

\* the app ids get_installed_games can return: the digit-only stems of the
\* appmanifest files, sorted
InstalledIds == AppIds \cup {<<"3">>}

InstalledGames ==
    {<<>>} \cup {<<a>> : a \in InstalledIds}
    \cup {sorted(<<p[1], p[2]>>) : p \in {q \in InstalledIds \X InstalledIds : q[1] # q[2]}}
    \cup {sorted(<<<<"1">>, <<"2">>, <<"3">>>>)}

\* lines 798-810 of cmd_remove_all_launchoptions: [ok, games_with_options];
\* ok is FALSE when the except clause is taken
games_with_options(data) ==
    LET nav == get_chain(DictV(data), AppsPath)
    IN IF ~nav.ok \/ ~nav.value.isdict
       \* .get or .items called on a str: AttributeError
       THEN [ok |-> FALSE, games |-> <<>>]
       ELSE LET with == SelectSeq(nav.value.dict,
                                  LAMBDA item : /\ item.value.isdict
                                                /\ Has(item.value.dict, LaunchOptions))
            IN [ok |-> TRUE, games |-> [i \in 1..Len(with) |-> with[i].key]]

Commands == {"modify-launchoptions", "modify-all-launchoptions",
             "remove-launchoptions", "remove-all-launchoptions"}

ForAll(c) == c \in {"modify-all-launchoptions", "remove-all-launchoptions"}

Kind(c) == IF c \in {"modify-launchoptions", "modify-all-launchoptions"}
           THEN "modify" ELSE "remove"

\* main() has loaded the configuration and dispatches on sys.argv[1]
CmdInit ==
    /\ InitFiles
    /\ cmd \in Commands
    /\ cpc = "start"
    /\ game_id \in IF ForAll(cmd) THEN {<<>>} ELSE AppIds \cup {<<>>}
    /\ launch_options_template \in IF Kind(cmd) = "modify" THEN NewValues ELSE {<<>>}
    /\ targets = <<>>
    /\ index = 1
    /\ modified_count = 0
    /\ skipped_count = 0
    /\ exit_code = -1
    /\ log = <<>>
    /\ treeStart = parse_vdf(disk)

\* the command ends at position p with exit status e
Ends(p, e) ==
    /\ cpc' = p
    /\ exit_code' = e

\* `if not game_id: sys.exit(1)` and find_localconfig_vdf(steam_path)
Locate ==
    /\ cpc = "start"
    /\ IF ~ForAll(cmd) /\ game_id = <<>>
       THEN Ends("no_game_id", 1) /\ UNCHANGED targets
       ELSE \E found \in BOOLEAN :
               IF ~found
               THEN Ends("not_located", 1) /\ UNCHANGED targets
               ELSE IF ForAll(cmd)
               THEN cpc' = "discover" /\ UNCHANGED <<exit_code, targets>>
               ELSE cpc' = "loop" /\ targets' = <<game_id>> /\ UNCHANGED exit_code
    /\ UNCHANGED <<T, rt_pc, text, parsed, text2, disk, backups, clock, pc, op,
                   localconfig_data, current_value, response, vdf_output, result, outcome,
                   events, calls, diskBefore, treeBefore, backupsBefore, prev, cmd, game_id,
                   launch_options_template, index, modified_count, skipped_count, log,
                   treeStart>>

\* get_installed_games(steam_path), lines 649-652
DiscoverInstalled ==
    /\ cpc = "discover"
    /\ cmd = "modify-all-launchoptions"
    /\ \E installed_games \in InstalledGames :
          /\ targets' = installed_games
          /\ IF installed_games = <<>>
             THEN Ends("no_targets", 0)
             ELSE cpc' = "confirm" /\ UNCHANGED exit_code
    /\ UNCHANGED <<T, rt_pc, text, parsed, text2, disk, backups, clock, pc, op,
                   localconfig_data, current_value, response, vdf_output, result, outcome,
                   events, calls, diskBefore, treeBefore, backupsBefore, prev, cmd, game_id,
                   launch_options_template, index, modified_count, skipped_count, log,
                   treeStart>>

\* lines 793-818 of cmd_remove_all_launchoptions: the file is read outside
\* any try statement, the navigation inside one that ends in sys.exit(1)
DiscoverWithOptions ==
    /\ cpc = "discover"
    /\ cmd = "remove-all-launchoptions"
    /\ \E ok \in BOOLEAN :
          IF ~ok
          THEN Ends("unreadable", 1) /\ UNCHANGED targets
          ELSE LET found == games_with_options(parse_vdf(disk))
               IN IF ~found.ok
                  THEN Ends("structure_error", 1) /\ UNCHANGED targets
                  ELSE /\ targets' = found.games
                       /\ IF found.games = <<>>
                          THEN Ends("no_targets", 0)
                          ELSE cpc' = "confirm" /\ UNCHANGED exit_code
    /\ UNCHANGED <<T, rt_pc, text, parsed, text2, disk, backups, clock, pc, op,
                   localconfig_data, current_value, response, vdf_output, result, outcome,
                   events, calls, diskBefore, treeBefore, backupsBefore, prev, cmd, game_id,
                   launch_options_template, index, modified_count, skipped_count, log,
                   treeStart>>

\* input("... for all N games? (y/n): "): an answer, EOFError (not caught:
\* the process ends with a traceback) or KeyboardInterrupt
Confirm ==
    /\ cpc = "confirm"
    /\ \/ \E answer \in Answers :
             IF strip_lower(answer) # <<"y">>
             THEN Ends("cancelled", 0)
             ELSE cpc' = "loop" /\ UNCHANGED exit_code
       \/ Ends("eof", 1)
       \/ Ends("interrupted", 130)
    /\ UNCHANGED <<T, rt_pc, text, parsed, text2, disk, backups, clock, pc, op,
                   localconfig_data, current_value, response, vdf_output, result, outcome,
                   events, calls, diskBefore, treeBefore, backupsBefore, prev, cmd, game_id,
                   launch_options_template, targets, index, modified_count, skipped_count,
                   log, treeStart>>

\* the calls are made with ask_if_exists=False
CmdCall_never_asks ==
    /\ cpc = "loop"
    /\ pc = "idle"
    /\ index <= Len(targets)
    /\ op' = [kind |-> Kind(cmd), app_id |-> sorted(targets)[index],
              new_launch_options |-> launch_options_template, ask_if_exists |-> FALSE]
    /\ pc' = "read"
    /\ calls' = calls + 1
    /\ outcome' = "running"
    /\ UNCHANGED cmdvars
    /\ UNCHANGED <<T, rt_pc, text, parsed, text2, disk, backups, clock, localconfig_data,
                   current_value, response, vdf_output, result, events, diskBefore,
                   treeBefore, backupsBefore, prev>>

\* the next call of modify_launch_options / remove_launch_options, always
\* with ask_if_exists=True
CmdCall ==
    /\ cpc = "loop"
    /\ pc = "idle"
    /\ index <= Len(targets)
    /\ op' = [kind |-> Kind(cmd), app_id |-> sorted(targets)[index],
              new_launch_options |-> launch_options_template, ask_if_exists |-> TRUE]
    /\ pc' = "read"
    /\ calls' = calls + 1
    /\ outcome' = "running"
    /\ UNCHANGED cmdvars
    /\ UNCHANGED <<T, rt_pc, text, parsed, text2, disk, backups, clock, localconfig_data,
                   current_value, response, vdf_output, result, events, diskBefore,
                   treeBefore, backupsBefore, prev>>

\* every call that has returned is counted as modified
count_every_call(returned, modified, skipped) ==
    [modified |-> modified + 1, skipped |-> skipped]

\* lines 667-670 and 832-835: the two counters after a call that returned
\* `returned`
count(returned, modified, skipped) ==
    IF returned THEN [modified |-> modified + 1, skipped |-> skipped]
    ELSE [modified |-> modified, skipped |-> skipped + 1]

\* the call has returned to the command
CmdReturn ==
    /\ cpc = "loop"
    /\ pc = "done"
    /\ log' = Append(log, [app_id |-> op.app_id, result |-> result, outcome |-> outcome,
                           events |-> events])
    /\ index' = index + 1
    /\ IF ForAll(cmd)
       \* lines 667-670 and 832-835
       THEN /\ modified_count' = count(result, modified_count, skipped_count).modified
            /\ skipped_count' = count(result, modified_count, skipped_count).skipped
            /\ UNCHANGED <<cpc, exit_code>>
       \* lines 628-632 and 774-777
       ELSE /\ IF cmd = "modify-launchoptions" /\ ~result
               THEN Ends("failed", 1)
               ELSE Ends("finished", 0)
            /\ UNCHANGED <<modified_count, skipped_count>>
    /\ pc' = "idle"
    /\ op' = NoOp
    /\ localconfig_data' = <<>>
    /\ current_value' = StrV(<<>>)
    /\ response' = <<>>
    /\ vdf_output' = <<>>
    /\ result' = FALSE
    /\ outcome' = "none"
    /\ events' = <<>>
    /\ diskBefore' = disk
    /\ treeBefore' = parse_vdf(disk)
    /\ backupsBefore' = backups
    /\ UNCHANGED <<T, rt_pc, text, parsed, text2, disk, backups, clock, calls, prev, cmd,
                   game_id, launch_options_template, targets, treeStart>>

\* the for loop is over: the summary is printed
Summary ==
    /\ cpc = "loop"
    /\ pc = "idle"
    /\ ForAll(cmd)
    /\ index > Len(targets)
    /\ Ends("summary", 0)
    /\ UNCHANGED <<T, rt_pc, text, parsed, text2, disk, backups, clock, pc, op,
                   localconfig_data, current_value, response, vdf_output, result, outcome,
                   events, calls, diskBefore, treeBefore, backupsBefore, prev, cmd, game_id,
                   launch_options_template, targets, index, modified_count, skipped_count,
                   log, treeStart>>

CmdNext ==
    \/ Locate
    \/ DiscoverInstalled
    \/ DiscoverWithOptions
    \/ Confirm
    \/ CmdCall
    \/ ModifyRead
    \/ ModifyPrompt
    \/ ModifyBackup
    \/ ModifyOpen
    \/ ModifyWrite
    \/ RemoveRead
    \/ RemovePrompt
    \/ RemoveBackup
    \/ RemoveOpen
    \/ RemoveWrite
    \/ Interrupt
    \/ CmdReturn
    \/ Summary

SpecCmd == CmdInit /\ [][CmdNext]_vars

\* ------------------------------------------------------------------------
\* Properties
\* ------------------------------------------------------------------------
\* index of the first occurrence of e in events, 0 when there is none
Pos(e) ==
    LET S == {i \in 1..Len(events) : events[i] = e}
    IN IF S = {} THEN 0 ELSE CHOOSE i \in S : \A j \in S : i <= j

Happened(e) == Pos(e) > 0

\* the node of dict d at path: [found, value]; not found when a segment is
\* missing or a str stands where a dict is needed
RECURSIVE Lookup(_, _)
Lookup(d, path) ==
    IF ~Has(d, Head(path)) THEN [found |-> FALSE, value |-> StrV(<<>>)]
    ELSE IF Len(path) = 1 THEN [found |-> TRUE, value |-> Get(d, Head(path))]
    ELSE IF ~Get(d, Head(path)).isdict THEN [found |-> FALSE, value |-> StrV(<<>>)]
    ELSE Lookup(Get(d, Head(path)).dict, Tail(path))

\* some segment of path is missing in d, below dicts only
RECURSIVE Absent(_, _)
Absent(d, path) ==
    IF ~Has(d, Head(path)) THEN TRUE
    ELSE IF Len(path) = 1 THEN FALSE
    ELSE IF ~Get(d, Head(path)).isdict THEN FALSE
    ELSE Absent(Get(d, Head(path)).dict, Tail(path))

\* some segment of path is in d as a str
RECURSIVE LeafOnPath(_, _)
LeafOnPath(d, path) ==
    IF path = <<>> \/ ~Has(d, Head(path)) THEN FALSE
    ELSE IF ~Get(d, Head(path)).isdict THEN TRUE
    ELSE LeafOnPath(Get(d, Head(path)).dict, Tail(path))

\* the path of the app section and of the target key of the running call
SectionPath == AppsPath \o <<op.app_id>>
TargetPath == SectionPath \o <<LaunchOptions>>

\* the call has read the file
InCall(kind) == op.kind = kind /\ Happened("read")

\* no step of the call has failed
NoFailure ==
    \A i \in 1..Len(events) :
        events[i] \notin {"read_failed", "prompt_eof", "backup_failed", "open_failed",
                          "write_failed"}

\* the call wrote nothing: neither the configuration file nor a backup row
NothingWritten ==
    /\ disk = diskBefore
    /\ backups = backupsBefore
    /\ ~Happened("backup")
    /\ ~Happened("open")

\* the tree of the file after the call, when the call does what it is meant to do
Expected ==
    IF op.kind = "modify"
    THEN SetItemAt(setdefault_chain(T, SectionPath).dict, SectionPath, LaunchOptions,
                   StrV(op.new_launch_options))
    ELSE DelItemAt(T, SectionPath, LaunchOptions)

\* C1: after a successful modify_launch_options or remove_launch_options on
\* the file serialized from T, the file holds T changed at the target key only
\* (plus the sections created on the way to it)
MutationFrame ==
    (pc = "done" /\ calls = 1 /\ result = TRUE) => disk = write_vdf(Expected, 0)

\* C2: whenever a call that found a value under the target key has opened the
\* configuration file for writing, a row with the app id and that value was
\* appended to the backup log before, and every backup file still starts with
\* what it held; after a failed backup the configuration file is not opened
BackupBeforeWrite ==
    /\ (op.kind \in {"modify", "remove"} /\ Happened("open")
            /\ Lookup(treeBefore, TargetPath).found)
       => /\ Happened("backup")
          /\ Pos("backup") < Pos("open")
          /\ backups[clock] # <<>>
          /\ backups[clock][Len(backups[clock])]
                = BackupRow(op.app_id, Lookup(treeBefore, TargetPath).value)
          /\ \A t \in DOMAIN backups :
                /\ Len(backupsBefore[t]) <= Len(backups[t])
                /\ SubSeq(backups[t], 1, Len(backupsBefore[t])) = backupsBefore[t]
          /\ backups # backupsBefore
    /\ Happened("backup_failed") => (~Happened("open") /\ disk = diskBefore /\ pc = "done")

BackupBeforeWrite_witness ==
    /\ pc = "done"
    /\ outcome = "Modified"
    /\ events = <<"read", "prompt", "backup", "open", "write">>

\* C3: when a call has ended, by a return or by a failure at any step, the
\* configuration file holds what it held before the call or the complete
\* serialization of the changed tree
NoPartialWrite ==
    pc = "done" => (disk = diskBefore \/ (Happened("open") /\ disk = vdf_output))

\* C4: round trip, parse_vdf(write_vdf(T)) = T for every quote-free T
RoundTrip == (rt_pc \in {"parsed", "reserialized"} /\ QuoteFree(T)) => parsed = T

\* C5: when a segment of the path to the app section is a str in the parsed
\* file, modify_launch_options ends as a failure with the parsed dictionary
\* as it was, the configuration file unwritten and no backup row appended
StructuralProtection ==
    (InCall("modify") /\ LeafOnPath(treeBefore, SectionPath))
    => /\ pc = "done"
       /\ result = FALSE
       /\ outcome \in {"NavigateError", "Exception"}
       /\ localconfig_data = treeBefore
       /\ NothingWritten

StructuralProtection_witness ==
    /\ pc = "done"
    /\ op.kind = "modify"
    /\ outcome = "NavigateError"
    /\ LeafOnPath(treeBefore, SectionPath)

\* C6: when the target key holds the requested value, modify_launch_options
\* returns at "already set" without a prompt, a backup row or a write
UnchangedIsNoOp ==
    (InCall("modify") /\ Lookup(treeBefore, TargetPath).found
        /\ Lookup(treeBefore, TargetPath).value = StrV(op.new_launch_options))
    => /\ pc = "done"
       /\ outcome = "Unchanged"
       /\ result = FALSE
       /\ events = <<"read">>
       /\ NothingWritten

UnchangedIsNoOp_witness ==
    /\ pc = "done"
    /\ outcome = "Unchanged"
    /\ Lookup(treeBefore, TargetPath).value = StrV(op.new_launch_options)

\* C7: when the operator has answered the prompt with anything but "y", the
\* call returns Skipped without a backup row or a write
DeclineIsSkipped ==
    (op.kind \in {"modify", "remove"} /\ Happened("prompt") /\ response # <<"y">>)
    => /\ pc = "done"
       /\ outcome = "Skipped"
       /\ result = FALSE
       /\ events = <<"read", "prompt">>
       /\ NothingWritten

DeclineIsSkipped_witness ==
    /\ pc = "done"
    /\ outcome = "Skipped"
    /\ response = <<"y", "e", "s">>
    /\ Lookup(treeBefore, TargetPath).found

\* C8: remove_launch_options on a file where the target key, the app section
\* or a section on the way is missing returns "not found" without a prompt, a
\* backup row or a write
RemoveAbsentIsNoOp ==
    (InCall("remove") /\ Absent(treeBefore, TargetPath))
    => /\ pc = "done"
       /\ outcome \in {"NotFound", "NoLaunchOptions"}
       /\ result = FALSE
       /\ events = <<"read">>
       /\ NothingWritten

RemoveAbsentIsNoOp_witness ==
    /\ pc = "done"
    /\ op.kind = "remove"
    /\ outcome = "NoLaunchOptions"
    /\ Absent(treeBefore, TargetPath)

\* C9: when modify_launch_options(app_id, v, ask_if_exists=False) has changed
\* or kept the file and is called again with the same arguments, the second
\* call returns Unchanged, writes nothing and appends no backup row
MutationIdempotent ==
    (pc = "done" /\ calls >= 2 /\ prev.outcome \in {"Modified", "Unchanged"} /\ NoFailure)
    => /\ outcome = "Unchanged"
       /\ NothingWritten

\* C10: write_vdf(parse_vdf(write_vdf(T))) = write_vdf(T) for every T
SerializationIdempotent == rt_pc = "reserialized" => text2 = text

\* ------------------------------------------------------------------------
\* Properties of the commands
\* ------------------------------------------------------------------------
\* e is one of the events es
In(es, e) == \E i \in 1..Len(es) : es[i] = e

\* number of times e is among the events es
Count(es, e) == Cardinality({i \in 1..Len(es) : es[i] = e})

\* the operator answered the prompt of the call and the answer let it go on
Approved(call) == In(call.events, "prompt") /\ call.outcome # "Skipped"

\* the operator answered the prompt of the call and the call skipped the item
Declined(call) == In(call.events, "prompt") /\ call.outcome = "Skipped"

\* a step of the call failed after the operator's approval
FailedAfterApproval(call) ==
    Approved(call) /\ \E e \in {"backup_failed", "open_failed", "write_failed"} :
                          In(call.events, e)

NumApproved == Cardinality({i \in 1..Len(log) : Approved(log[i])})
NumDeclined == Cardinality({i \in 1..Len(log) : Declined(log[i])})
NumReturnedTrue == Cardinality({i \in 1..Len(log) : log[i].result})

\* every item of the batch was put to the operator
AllAnswered == \A i \in 1..Len(log) : Approved(log[i]) \/ Declined(log[i])

\* C11 as stated: a batch over N targets in which the operator approves M
\* items and declines the rest ends with the counters {applied: M,
\* skipped: N-M, total: N}
BatchAccounting ==
    (ForAll(cmd) /\ cpc = "summary" /\ AllAnswered)
    => /\ modified_count = NumApproved
       /\ skipped_count = Len(targets) - NumApproved
       /\ Len(log) = Len(targets)

\* C11 amended: at the summary applied + skipped = total = N and applied is
\* the number of calls that returned True; when the operator approved M
\* items and declined the rest, applied = M less the approved items whose
\* backup, open or write failed, which are counted as skipped
BatchAccountingOfCompleted ==
    (ForAll(cmd) /\ cpc = "summary")
    => /\ Len(log) = Len(targets)
       /\ modified_count + skipped_count = Len(targets)
       /\ modified_count = NumReturnedTrue
       /\ AllAnswered
          => /\ modified_count
                = NumApproved
                  - Cardinality({i \in 1..Len(log) : FailedAfterApproval(log[i])})
             /\ NumDeclined = Len(targets) - NumApproved

\* a batch of two or more items, some approved and some declined, one of the
\* approved failed, has reached its summary
BatchAccountingOfCompleted_witness ==
    /\ ForAll(cmd)
    /\ cpc = "summary"
    /\ AllAnswered
    /\ Len(log) >= 2
    /\ NumDeclined >= 1
    /\ NumReturnedTrue >= 1
    /\ \E i \in 1..Len(log) : FailedAfterApproval(log[i])

\* the LaunchOptions entry of app a in the dict d: [found, value]
OptionsOf(d, a) == Lookup(d, AppsPath \o <<a, LaunchOptions>>)

\* the file holds the change the command makes to app a
HoldsChange(a) ==
    IF Kind(cmd) = "modify"
    THEN OptionsOf(parse_vdf(disk), a)
         = [found |-> TRUE, value |-> StrV(launch_options_template)]
    ELSE ~OptionsOf(parse_vdf(disk), a).found

\* the file holds for app a what it held when the command started
HoldsOriginal(a) == OptionsOf(parse_vdf(disk), a) = OptionsOf(treeStart, a)

\* C12: when a batch has reached its summary, the file holds the new value
\* (or the removal) for every item the operator approved and the original
\* value for every item the operator declined
BatchFinalState ==
    (ForAll(cmd) /\ cpc = "summary")
    => \A i \in 1..Len(log) :
          /\ Approved(log[i]) => HoldsChange(log[i].app_id)
          /\ Declined(log[i]) => HoldsOriginal(log[i].app_id)

\* the app ids of the calls that have returned, in order
Processed == [i \in 1..Len(log) |-> log[i].app_id]

\* the call failed: it returned through an except clause
Failed(call) == call.outcome \in {"Exception", "NavigateError"}

\* C13: a failure inside the call made for one batch item is caught and the
\* call returns False, which the loop counts as skipped; only the operator's
\* interrupt ends a call without a return; after any item the batch is still
\* in its loop, where the next call or the summary can be taken (the guard of
\* CmdCall or of Summary holds); at the summary every target has been
\* processed exactly once, in order
BatchFailureIsolation ==
    /\ pc = "exited" => outcome = "KeyboardInterrupt"
    /\ ForAll(cmd) =>
        /\ (pc = "done" /\ Failed([outcome |-> outcome])) => (~result /\ cpc = "loop")
        /\ \A i \in 1..Len(log) : Failed(log[i]) => ~log[i].result
        /\ log # <<>> => cpc \in {"loop", "summary"}
        /\ (cpc = "loop" /\ pc = "idle")
           => /\ index = Len(log) + 1
              /\ index <= Len(targets) \/ index = Len(targets) + 1
              /\ Processed = SubSeq(sorted(targets), 1, Len(log))
              /\ skipped_count = Cardinality({i \in 1..Len(log) : ~log[i].result})
        /\ cpc = "summary" => Processed = sorted(targets)

\* a batch has reached its summary after one item failed and a later item
\* failed in its write
BatchFailureIsolation_witness ==
    /\ ForAll(cmd)
    /\ cpc = "summary"
    /\ Len(log) >= 2
    /\ \E i \in 1..Len(log), j \in 1..Len(log) :
          /\ i < j
          /\ Failed(log[i])
          /\ In(log[j].events, "write_failed")

\* C14: in a command, a call reaches create_backup and the change of an
\* existing value only after the operator answered "y" at the prompt of that
\* very call, made for the item the loop is at; a call has at most one prompt
\* and one backup, and every call that has returned with a backup or a write
\* over an existing value has its own prompt before it
PerItemConfirmation ==
    cpc = "loop" =>
        /\ pc \in {"read", "prompt", "backup", "open", "write", "done"}
           => op.app_id = sorted(targets)[index] /\ op.ask_if_exists
        /\ (pc = "backup" \/ Happened("backup") \/ Happened("backup_failed"))
           => /\ Happened("prompt")
              /\ response = <<"y">>
              /\ Happened("backup") => Pos("prompt") < Pos("backup")
        /\ (Happened("open") /\ OptionsOf(treeBefore, op.app_id).found)
           => (Happened("prompt") /\ Pos("prompt") < Pos("open") /\ response = <<"y">>)
        /\ Count(events, "prompt") <= 1 /\ Count(events, "backup") <= 1
        /\ \A i \in 1..Len(log) :
              /\ Count(log[i].events, "prompt") <= 1
              /\ Count(log[i].events, "backup") <= Count(log[i].events, "prompt")
              /\ log[i].outcome = "Removed" => Approved(log[i])

\* two items of one batch have had their existing values changed, each after
\* its own approval
PerItemConfirmation_witness ==
    /\ ForAll(cmd)
    /\ cpc = "loop"
    /\ Len(log) >= 1
    /\ Approved(log[1]) /\ log[1].result
    /\ pc = "done" /\ result /\ Happened("prompt") /\ Happened("backup")

\* the dict d after the change the command makes to app a
Applied(d, a) ==
    LET path == AppsPath \o <<a>>
    IN IF Kind(cmd) = "modify"
       THEN IF setdefault_chain(d, path).ok /\ setdefault_chain(d, path).value.isdict
            THEN SetItemAt(setdefault_chain(d, path).dict, path, LaunchOptions,
                           StrV(launch_options_template))
            ELSE d
       ELSE IF Lookup(d, path \o <<LaunchOptions>>).found
            THEN DelItemAt(d, path, LaunchOptions)
            ELSE d

\* the dict d after the changes of the calls that returned True
RECURSIVE AppliedAll(_, _)
AppliedAll(d, calls_) ==
    IF calls_ = <<>> THEN d
    ELSE AppliedAll(IF Head(calls_).result THEN Applied(d, Head(calls_).app_id) ELSE d,
                    Tail(calls_))

\* the operator has interrupted the prompt of item `index` of a batch
Interrupted == ForAll(cmd) /\ cpc = "loop" /\ pc = "exited"

\* C15: when the operator interrupts a batch at the prompt of item k, the
\* file is what the last finished item left (nothing is rolled back, item k
\* has written nothing) and it is the file the batch started from with
\* exactly the changes of the items applied before k
InterruptDurability ==
    Interrupted =>
        /\ disk = diskBefore
        /\ backups = backupsBefore
        /\ disk = write_vdf(AppliedAll(T, log), 0)

\* C16: a batch command that ends with an error before its first item does so
\* only because the configuration file was not located
AbortOnlyWhenNotLocated ==
    (ForAll(cmd) /\ exit_code = 1 /\ calls = 0) => cpc = "not_located"

\* the events es hold one read, then one open, then one write
OneCycle(es) ==
    /\ Count(es, "read") = 1 /\ Count(es, "open") = 1 /\ Count(es, "write") = 1
    /\ \E i, j, k \in 1..Len(es) :
          i < j /\ j < k /\ es[i] = "read" /\ es[j] = "open" /\ es[k] = "write"

\* C17: a call that returns Modified or Removed has read the file once,
\* changed the dictionary parsed from it, and written the serialization of
\* the whole dictionary once; a call with another outcome has completed no
\* write; so the number of completed rewrites of a run is the number of its
\* applied changes
OnePersistPerChange ==
    cpc \in {"loop", "summary", "finished", "failed"} =>
        /\ (pc = "done" /\ outcome \in {"Modified", "Removed"})
           => /\ OneCycle(events)
              /\ localconfig_data = Applied(treeBefore, op.app_id)
              /\ vdf_output = write_vdf(localconfig_data, 0)
              /\ disk = vdf_output
        /\ (pc = "done" /\ outcome \notin {"Modified", "Removed"})
           => ~Happened("write")
        /\ \A i \in 1..Len(log) :
              IF log[i].result THEN OneCycle(log[i].events)
              ELSE ~In(log[i].events, "write")
        /\ ForAll(cmd) =>
              modified_count
              = Cardinality({i \in 1..Len(log) : In(log[i].events, "write")})

\* the second applied change of a batch has just rewritten the file that the
\* first had rewritten
OnePersistPerChange_witness ==
    /\ ForAll(cmd)
    /\ cpc = "loop"
    /\ modified_count >= 1
    /\ pc = "done"
    /\ outcome \in {"Modified", "Removed"}
    /\ disk # diskBefore

\* s is a prefix of t
IsPrefix(s, t) == Len(s) <= Len(t) /\ SubSeq(t, 1, Len(s)) = s

\* the backup files that exist
BackupFiles == {t \in DOMAIN backups : backups[t] # <<>>}

\* C18: the backup rows of a run go to one log: it starts with the one header
\* block, every line after it is a row, and what it held when the running
\* call started is a prefix of what it holds
BackupLogAppendOnly ==
    /\ Cardinality(BackupFiles) <= 1
    /\ \A t \in BackupFiles :
          /\ IsPrefix(BackupHeader, backups[t])
          /\ \A i \in (Len(BackupHeader) + 1)..Len(backups[t]) : backups[t][i].kind = "row"
    /\ \A t \in DOMAIN backups : IsPrefix(backupsBefore[t], backups[t])

\* C19: modify-launchoptions ends with exit status 1 after its call only when
\* the call failed (it returned through an except clause), never when the
\* value was already set (Unchanged) or the operator declined (Skipped)
NoOpOutcomesSucceed ==
    (cmd = "modify-launchoptions" /\ Len(log) = 1)
    => /\ log[1].outcome \in {"Unchanged", "Skipped"} => exit_code = 0
       /\ exit_code = 1 => Failed(log[1])

\* ------------------------------------------------------------------------
\* parse_vdf on arbitrary text
\* ------------------------------------------------------------------------
\* the characters arbitrary input is made of
Alphabet == {QUOTE, "a", LBRACE, RBRACE, SLASH, NL}

\* the texts of at most n characters
RECURSIVE Texts(_)
Texts(n) ==
    IF n = 0 THEN {<<>>}
    ELSE Texts(n - 1) \cup {Append(s, c) : s \in Texts(n - 1), c \in Alphabet}

\* d sections "a" opened inside one another, the innermost holding "b" "c",
\* none of them closed
RECURSIVE Nest(_)
Nest(d) ==
    IF d = 0 THEN <<QUOTE, "b", QUOTE, TAB, TAB, QUOTE, "c", QUOTE>>
    ELSE <<QUOTE, "a", QUOTE, NL, LBRACE, NL>> \o Nest(d - 1)

\* the tree Nest(d) stands for
RECURSIVE NestTree(_)
NestTree(d) ==
    IF d = 0 THEN <<Item(<<"b">>, StrV(<<"c">>))>>
    ELSE <<Item(<<"a">>, DictV(NestTree(d - 1)))>>

\* the pieces texts are put together from: a key with a value, a key that
\* opens a section, a closing brace, a key alone
Pieces == {Quoted(<<"a">>) \o <<TAB, TAB>> \o Quoted(<<"x">>) \o <<NL>>,
           Quoted(<<"b">>) \o <<NL, LBRACE, NL>>,
           <<RBRACE, NL>>,
           Quoted(<<"k">>) \o <<NL>>}

\* the texts of at most n pieces
RECURSIVE PieceTexts(_)
PieceTexts(n) ==
    IF n = 0 THEN {<<>>}
    ELSE PieceTexts(n - 1) \cup {s \o c : s \in PieceTexts(n - 1), c \in Pieces}

ParseInputs == Texts(MaxText) \cup {Nest(d) : d \in 0..MaxNest} \cup PieceTexts(MaxPieces)

ParseInit ==
    /\ T = <<>>
    /\ rt_pc = "input"
    /\ text \in ParseInputs
    /\ parsed = <<>>
    /\ text2 = <<>>
    /\ disk = <<>>
    /\ backups = NoBackups
    /\ clock = 0
    /\ pc = "off"
    /\ op = NoOp
    /\ localconfig_data = <<>>
    /\ current_value = StrV(<<>>)
    /\ response = <<>>
    /\ vdf_output = <<>>
    /\ result = FALSE
    /\ outcome = "none"
    /\ events = <<>>
    /\ calls = 0
    /\ diskBefore = <<>>
    /\ treeBefore = <<>>
    /\ backupsBefore = NoBackups
    /\ prev = [op |-> NoOp, outcome |-> "none"]
    /\ NoCommand

\* parsed = parse_vdf(text), or the RecursionError leaves parse_vdf
ParseText ==
    /\ rt_pc = "input"
    /\ IF parse_raises(text)
       THEN rt_pc' = "RecursionError" /\ UNCHANGED parsed
       ELSE rt_pc' = "parsed" /\ parsed' = parse_vdf(text)
    /\ UNCHANGED <<T, text, text2>>
    /\ UNCHANGED mainvars

ParseNext == ParseText

SpecParse == ParseInit /\ [][ParseNext]_vars

\* a dict of the model: every value a str or a dict, no key twice
RECURSIVE IsTree(_)
IsTree(d) ==
    /\ \A i, j \in 1..Len(d) : d[i].key = d[j].key => i = j
    /\ \A i \in 1..Len(d) : d[i].value.isdict => IsTree(d[i].value.dict)

\* C20: parse_vdf returns a tree for every text and raises nothing; in
\* particular sections left open at the end of the text are closed and keep
\* their entries, at every nesting depth
ParserTotality ==
    /\ rt_pc # "RecursionError"
    /\ rt_pc = "parsed"
       => /\ IsTree(parsed)
          /\ \A d \in 0..MaxNest : text = Nest(d) => parsed = NestTree(d)

\* C21: a closing brace with no section open is skipped: the result is that
\* of the token stream without it
ExcessCloseIgnored ==
    rt_pc = "parsed" =>
        LET tokens == tokenize(text)
            roles == Roles(tokens, 1, 0)
        IN \A i \in 1..Len(tokens) :
              roles[i] = "excess" => parsed = parse_tokens(Without(tokens, i), 1).result

\* C22: a bare key right before a closing brace is dropped and nothing else:
\* the result is that of the token stream without the bare key
BareKeyOnlyDropped ==
    rt_pc = "parsed" =>
        LET tokens == tokenize(text)
            roles == Roles(tokens, 1, 0)
        IN \A i \in 1..(Len(tokens) - 1) :
              (roles[i] = "bare" /\ IsClose(tokens[i + 1]))
              => parsed = parse_tokens(Without(tokens, i), 1).result

\* ------------------------------------------------------------------------
\* Backup rows and outcomes of one call
\* ------------------------------------------------------------------------
\* number of rows in the lines of one backup file
RowsIn(lines) == Cardinality({i \in 1..Len(lines) : lines[i].kind = "row"})

\* number of rows in the backup files of the timestamps 0..t
RECURSIVE RowsUpTo(_, _)
RowsUpTo(files, t) ==
    IF t < 0 THEN 0 ELSE RowsIn(files[t]) + RowsUpTo(files, t - 1)

\* number of rows the running (or last) call has appended
RowsAppended == RowsUpTo(backups, MaxClock) - RowsUpTo(backupsBefore, MaxClock)

\* the call found a node under the target key
TargetFound == Lookup(treeBefore, TargetPath).found

\* the call ended as Replaced or as Removed
Destructive ==
    \/ op.kind = "modify" /\ outcome = "Modified" /\ TargetFound
    \/ op.kind = "remove" /\ outcome = "Removed"

\* the call found a value and failed when it opened or wrote the
\* configuration file
FailedAfterBackup ==
    /\ outcome = "Exception"
    /\ TargetFound
    /\ Happened("open_failed") \/ Happened("write_failed")

\* C23 as stated: a call appends one backup row when it ends as Replaced or
\* Removed, and none when it ends in any other way
BackupRowsMatchOutcomes ==
    pc = "done" => RowsAppended = IF Destructive THEN 1 ELSE 0

\* C23: a call appends one backup row when it ends as Replaced or Removed or
\* fails at the open or the write that follows its backup, and none when it
\* ends as Inserted, Unchanged, Skipped, NotFound or fails earlier
BackupRowsMatchBackupStep ==
    pc \in {"done", "exited"}
    => RowsAppended = IF Destructive \/ FailedAfterBackup THEN 1 ELSE 0

\* a second call has replaced or removed a value, after a first one that
\* appended a row
BackupRowsMatchBackupStep_witness ==
    /\ pc = "done"
    /\ calls = 2
    /\ Destructive
    /\ RowsAppended = 1
    /\ RowsUpTo(backupsBefore, MaxClock) = 1

\* C24: a call that finds a Section under the target key neither replaces nor
\* deletes it: it returns False and has written neither the configuration
\* file nor a backup row
SectionTargetProtected ==
    (/\ pc = "done"
     /\ op.kind \in {"modify", "remove"}
     /\ TargetFound
     /\ Lookup(treeBefore, TargetPath).value.isdict)
    => ~result /\ NothingWritten

====
